---- MODULE Spec2Model ----
(***************************************************************************)
(* The file-sharing server of src/server.py (FileShareServer) with the     *)
(* codec and chunking engine of src/protocol.py, as a state machine: one   *)
(* accept loop on the main thread, one daemon thread per accepted          *)
(* connection running _handle_client, and the peer of every connection as  *)
(* the sequence of messages it sends.                                      *)
(*                                                                         *)
(* Byte strings are kept symbolically, as sequences of extents             *)
(* <<source, lo, hi>>: the bytes lo..hi-1 of the blob named source.  Every *)
(* byte of every blob is a distinct symbol, so two byte strings are equal  *)
(* exactly when their normalised extent lists are.  Slicing and joining    *)
(* are computed on the extents as Python computes them on bytes.           *)
(***************************************************************************)
EXTENDS Integers, Sequences, FiniteSets, TLC

(* ------------------------------ bounds -------------------------------- *)

\* Connections the accept loop takes in one run of the model.
MaxClients == 2

\* Handler threads alive at once in the model of the connection table's statements.
MaxThreads == 3

\* The codec and chunking functions taken alone: the longest blob of their
\* input data, the largest chunk size, the largest chunk index, and the
\* longest file name (in characters).
MaxLen == 3
MaxChunkSize == 4
MaxIndex == 1
MaxNameLen == 2

\* The bytes of a message that arrive ahead of the rest when the network
\* delivers the message in two parts.
ShortRead == 5

(* --------------------------- protocol.py ------------------------------ *)

MAJOR == 1
MINOR == 0
PATCH == 0

\* ProtocolVersion.get_version: f"{MAJOR}.{MINOR}.{PATCH}", kept as its three parts.
get_version == <<MAJOR, MINOR, PATCH>>

\* ChunkSize.MEDIUM and CompressionLevel.MEDIUM.
CHUNK_MEDIUM == 4096
COMPRESSION_MEDIUM == 6

\* MessageType.
HANDSHAKE == 1
FILE_REQUEST == 2
FILE_RESPONSE == 3
CHUNK_DATA == 4
CHUNK_ACK == 5
ERROR == 6
COMPLETE == 7

Min(a, b) == IF a < b THEN a ELSE b
Max(a, b) == IF a > b THEN a ELSE b

\* len(b) of a byte string.
RECURSIVE BytesLen(_)
BytesLen(b) ==
    IF b = <<>> THEN 0 ELSE (Head(b)[3] - Head(b)[2]) + BytesLen(Tail(b))

\* b[i:j] for 0 <= i, as Python slices: clipped to the string, empty when j <= i.
RECURSIVE Slice(_, _, _)
Slice(b, i, j) ==
    IF b = <<>> \/ j <= i THEN <<>>
    ELSE LET e == Head(b)
             n == e[3] - e[2]
             lo == Min(i, n)
             hi == Min(j, n)
             rest == Slice(Tail(b), Max(i - n, 0), Max(j - n, 0))
         IN  IF lo < hi THEN << <<e[1], e[2] + lo, e[2] + hi>> >> \o rest ELSE rest

\* x + y on byte strings: adjacent extents of one blob merge, so that equal
\* byte strings have equal representations.
Concat(x, y) ==
    IF x = <<>> THEN y
    ELSE IF y = <<>> THEN x
    ELSE LET a == x[Len(x)]
             b == Head(y)
         IN  IF a[1] = b[1] /\ a[3] = b[2]
             THEN SubSeq(x, 1, Len(x) - 1) \o << <<a[1], a[2], b[3]>> >> \o Tail(y)
             ELSE x \o y

\* zlib.compress(data, level): a reversible transform whose output is not
\* the input; zlib.decompress undoes it and raises zlib.error on anything
\* that is not a zlib stream.  A payload is the pair of how its bytes were made and the bytes they were
\* made from: "raw" (the bytes themselves), "zlib" (a zlib stream of them).
Raw(data) == [enc |-> "raw", data |-> data]
zlib_compress(data, level) == [enc |-> "zlib", data |-> data]
IsZlib(p) == p.enc = "zlib"

\* struct.calcsize of a native-mode format (a sequence of format characters):
\* every field is aligned to its own size, no padding after the last one.
FieldSize(ch) == CASE ch = "B" -> 1 [] ch = "I" -> 4 [] ch = "q" -> 8
RECURSIVE PackedEnd(_, _)
PackedEnd(fmt, off) ==
    IF fmt = <<>> THEN off
    ELSE LET w == FieldSize(Head(fmt))
             start == ((off + w - 1) \div w) * w
         IN  PackedEnd(Tail(fmt), start + w)
calcsize(fmt) == PackedEnd(fmt, 0)

\* ProtocolMessage.create_handshake
create_handshake(version) ==
    [type |-> HANDSHAKE, fmt |-> <<"B">> \o <<"I">>, version |-> version]

\* ProtocolMessage.create_chunk
create_chunk(chunk_index, data, compress) ==
    LET payload == IF compress THEN zlib_compress(data, COMPRESSION_MEDIUM) ELSE Raw(data)
    IN  [type |-> CHUNK_DATA,
         fmt |-> <<"B", "I", "I", "B", "q">>,
         index |-> chunk_index,
         compressed |-> IF compress THEN 1 ELSE 0,
         original_len |-> BytesLen(data),
         payload |-> payload]

\* ProtocolMessage.create_error, and the struct.pack('BBI', ERROR, code, len) + text
\* the server writes inline.
create_error(error_code, error_msg) ==
    [type |-> ERROR, fmt |-> <<"B", "B", "I">>, code |-> error_code, text |-> error_msg]

\* The names ProtocolMessage defines.
ProtocolMessageAttrs == {"create_handshake", "create_chunk", "parse_chunk", "create_error"}

\* len(message) - len(payload): the bytes of a message before its payload.
HeaderLen(message) == calcsize(message.fmt)

\* ProtocolMessage.parse_chunk: the result, or the exception raised.
\* message[1:15] holds min(15, len(message)) - 1 bytes, and struct.unpack
\* needs exactly calcsize('IBBq') of them.  len(message) is at least the
\* header's length, which alone reaches 15 for every header this model sends.
parse_chunk(message) ==
    IF message.type # CHUNK_DATA
    THEN [raised |-> "ValueError"]
    ELSE LET have == Max(Min(15, HeaderLen(message)) - 1, 0)
         IN  IF have # calcsize(<<"I", "B", "B", "q">>)
             THEN [raised |-> "struct.error"]
             ELSE IF message.compressed # 0 /\ ~IsZlib(message.payload)
             THEN [raised |-> "zlib.error"]
             ELSE [raised |-> "",
                   chunk_index |-> message.index,
                   payload |-> message.payload.data,
                   compressed |-> message.compressed # 0]

\* FileTransferProtocol.split_file: for i in range(0, len(file_data), chunk_size),
\* the slice file_data[i:i + chunk_size].
RECURSIVE SplitFrom(_, _, _)
SplitFrom(file_data, i, chunk_size) ==
    IF i >= BytesLen(file_data) THEN <<>>
    ELSE <<Slice(file_data, i, i + chunk_size)>>
             \o SplitFrom(file_data, i + chunk_size, chunk_size)

\* A split that keeps the whole chunks only and drops a shorter last one.
split_file_whole_chunks(file_data, chunk_size) ==
    SplitFrom(Slice(file_data, 0, (BytesLen(file_data) \div chunk_size) * chunk_size),
              0, chunk_size)

split_file(file_data, chunk_size) == SplitFrom(file_data, 0, chunk_size)

\* FileMetadata.calculate_chunks: math.ceil(filesize / chunk_size)
calculate_chunks(filesize, chunk_size) ==
    IF filesize % chunk_size = 0
    THEN filesize \div chunk_size
    ELSE filesize \div chunk_size + 1

\* FileTransferProtocol.reassemble_file: b''.join(chunks)
RECURSIVE reassemble_file(_)
reassemble_file(chunks) ==
    IF chunks = <<>> THEN <<>> ELSE Concat(Head(chunks), reassemble_file(Tail(chunks)))

(* ---------------------------- environment ----------------------------- *)

\* The storage root (data_dir) at start-up: file name -> content.
InitialStorage ==
    [f \in {"a.txt", "b.txt"} |->
        IF f = "a.txt" THEN << <<"a.txt", 0, 10000>> >> ELSE << <<"b.txt", 0, 5000>> >>]

\* The local file a peer uploads.
UploadData == << <<"upload", 0, 10000>> >>

\* A file name is the sequence of its path components; os.path.basename is
\* the last one.
basename(filename) == filename[Len(filename)]
RequestNames == {<<"a.txt">>, <<"..", "b.txt">>, <<"nope.txt">>}

\* A FileRequest as the server reads it: tag(1), length(4), name.
FileRequest(filename) ==
    [type |-> FILE_REQUEST, fmt |-> <<"B">> \o <<"I">>, filename |-> filename]

\* A message whose tag is none of MessageType's.
UnknownMessage == [type |-> 9, fmt |-> <<"B">>]

\* A Handshake cut after its tag byte: no length, no version.
TruncatedHandshake == [type |-> HANDSHAKE, fmt |-> <<"B">>]

\* Files beside the storage root, by their path from it.
OutsideFiles == [p \in {<<"..", "b.txt">>} |-> << <<"outside", 0, 5000>> >>]

\* The ChunkData messages of an upload of UploadData, as the client's
\* _send_file builds them; chunk number corrupt (1-based, 0 for none) has its
\* payload overwritten in transit.
UploadStream(corrupt) ==
    LET chunks == split_file(UploadData, CHUNK_MEDIUM)
    IN  [k \in 1..Len(chunks) |->
            LET m == create_chunk(k - 1, chunks[k], TRUE)
            IN  IF k = corrupt
                THEN [m EXCEPT !.payload =
                        [enc |-> "garbage", data |-> << <<"garbage", 0, BytesLen(chunks[k])>> >>]]
                ELSE m]

\* What the peer of a connection sends over the connection's life, in order;
\* the empty script is a peer that sends nothing: it closes, resets, or keeps
\* the connection open in silence.
Scripts ==
    {<<>>,
     <<create_handshake(<<2, 0, 0>>)>>,
     <<UnknownMessage>>,
     <<TruncatedHandshake>>,
     UploadStream(1),
     <<create_handshake(get_version)>> \o UploadStream(0),
     <<create_handshake(get_version)>> \o UploadStream(2),
     <<create_handshake(get_version), FileRequest(<<"a.txt">>)>>}
    \cup {<<FileRequest(n)>> : n \in RequestNames}

(* ----------------------------- server.py ------------------------------ *)

Clients == 1..MaxClients
None == [type |-> 0]

VARIABLES
    proc,                \* the process: "starting" (start() not yet in its accept loop),
                         \* "serving", "stopped" (stop() ran), "exited", and "aborted"
                         \* (ended by a start() that could not bind)
    running,             \* FileShareServer.running
    listening,           \* the listening socket is open
    client_count,        \* FileShareServer.client_count
    active_connections,  \* the keys of FileShareServer.active_connections
    storage,             \* the files of data_dir
    pc,                  \* where each connection's handler thread is
    sock,                \* each client socket: "open", "broken", "closed"
    inbox,               \* what the peer has sent and the server has not read
    data,                \* _process_client_request's data
    chunks,              \* _handle_file_request's chunks
    idx,                 \* _handle_file_request's loop index i
    response,            \* _handle_client's response
    sendlog,             \* every sendall on the connection: the message, and whether it was written
    stalled,             \* the connections whose peer sends nothing and keeps the connection open
    issued,              \* every client_id the accept loop has handed out, in order
    tpc,                 \* the table statements of the handler threads, bytecode by bytecode
    pure,                \* a codec or chunking function, its arguments and its result
    cl,                  \* a FileShareClient and its side of a connection
    exit_status          \* the status the process has ended with, NoStatus while it lives

vars == <<proc, running, listening, client_count, active_connections, storage,
          pc, sock, inbox, data, chunks, idx, response, sendlog, stalled, issued,
          tpc, pure, cl, exit_status>>

\* What the steps of a process that serves never touch.
aux == <<tpc, pure, cl, exit_status>>

\* The server's state but its connection table.
server_rest == <<proc, running, listening, client_count, storage, pc, sock, inbox,
                 data, chunks, idx, response, sendlog, stalled, issued, exit_status>>

\* No exit status yet, and the status of a process whose main() has returned.
NoStatus == -1
EXIT_MAIN_RETURNED == 0

\* FileShareServer.__init__: main() is about to call start().
Init ==
    /\ proc = "starting"
    /\ running = FALSE
    /\ listening = FALSE
    /\ client_count = 0
    /\ active_connections = {}
    /\ storage = InitialStorage
    /\ pc = [c \in Clients |-> "none"]
    /\ sock = [c \in Clients |-> "none"]
    /\ inbox = [c \in Clients |-> <<>>]
    /\ data = [c \in Clients |-> None]
    /\ chunks = [c \in Clients |-> <<>>]
    /\ idx = [c \in Clients |-> 0]
    /\ response = [c \in Clients |-> None]
    /\ sendlog = [c \in Clients |-> <<>>]
    /\ stalled = {}
    /\ issued = <<>>
    /\ tpc = <<>>
    /\ pure = [op |-> "none"]
    /\ cl = [pc |-> "none"]
    /\ exit_status = NoStatus

\* start(), lines 41-47: the socket is bound and listens, running = True, and
\* the accept loop is entered.
Start ==
    /\ proc = "starting"
    /\ proc' = "serving"
    /\ running' = TRUE
    /\ listening' = TRUE
    /\ UNCHANGED aux
    /\ UNCHANGED <<client_count, active_connections, storage, pc, sock, inbox,
                   data, chunks, idx, response, sendlog, stalled, issued>>

\* start(), bind raises OSError: the except of lines 49-51 prints it and sets
\* running = False, start() returns, main() returns and the process ends.
StartFails ==
    /\ proc = "starting"
    /\ proc' = "aborted"
    /\ running' = FALSE
    /\ exit_status' = EXIT_MAIN_RETURNED
    /\ UNCHANGED <<tpc, pure, cl>>
    /\ UNCHANGED <<listening, client_count, active_connections, storage, pc, sock,
                   inbox, data, chunks, idx, response, sendlog, stalled, issued>>

\* An exception's str(e), or a fixed text, with what it names.
Text(what, arg) == [what |-> what, arg |-> arg]

\* One sendall(msg) on c's socket, written (ok) or raising OSError.
Sendall(c, msg, ok) ==
    /\ ok => sock[c] = "open"
    /\ sendlog' = [sendlog EXCEPT ![c] = Append(@, [msg |-> msg, ok |-> ok])]
    /\ sock' = [sock EXCEPT ![c] = IF ok THEN @ ELSE "broken"]

\* The identifier taken from the size of the connection table.
new_client_id_from_table == Cardinality(active_connections) + 1

\* _accept_connections, lines 66-67: self.client_count += 1; client_id = self.client_count
new_client_id == client_count + 1

\* _accept_connections: one turn of the loop that accepts a connection, whose
\* peer will send script s, and starts its daemon thread.
Accept ==
    /\ proc = "serving" /\ running /\ listening
    /\ client_count < MaxClients
    /\ \E s \in Scripts, silent \in BOOLEAN :
         LET client_id == new_client_id
         IN  /\ silent => s = <<>>
             /\ client_count' = client_id
             /\ issued' = Append(issued, client_id)
             /\ pc' = [pc EXCEPT ![client_id] = "start"]
             /\ sock' = [sock EXCEPT ![client_id] = "open"]
             /\ inbox' = [inbox EXCEPT ![client_id] = s]
             /\ stalled' = IF silent THEN stalled \cup {client_id} ELSE stalled
    /\ UNCHANGED aux
    /\ UNCHANGED <<proc, running, listening, active_connections, storage,
                   data, chunks, idx, response, sendlog>>

\* _handle_client, line 82: self.active_connections[client_id] = client_socket
Register(c) ==
    /\ UNCHANGED <<stalled, issued>> /\ UNCHANGED aux
    /\ proc # "exited" /\ pc[c] = "start"
    /\ active_connections' = active_connections \cup {c}
    /\ pc' = [pc EXCEPT ![c] = "recv"]
    /\ UNCHANGED <<proc, running, listening, client_count, storage,
                   sock, inbox, data, chunks, idx, response, sendlog>>

\* _handle_handshake: the reply, whatever the handshake received says.
handle_handshake(d) == create_handshake(get_version)

\* _handle_chunk_upload: the reply.
handle_chunk_upload(d) ==
    LET r == parse_chunk(d)
    IN  IF r.raised = ""
        THEN [type |-> CHUNK_ACK, fmt |-> <<"B", "B", "I">>, index |-> r.chunk_index]
        ELSE create_error(4, Text(r.raised, <<>>))

\* The path built from the name as sent: os.path.join(data_dir, filename).
filepath_unstripped(filename) == filename

\* _handle_file_request, line 126: os.path.join(data_dir, os.path.basename(filename)),
\* as the path from data_dir.
filepath(filename) == <<basename(filename)>>

\* os.path.exists(p) and os.path.isfile(p), and the bytes open(p, 'rb').read() gives.
path_is_file(p) ==
    \/ Len(p) = 1 /\ p[1] \in DOMAIN storage
    \/ p \in DOMAIN OutsideFiles
read_path(p) == IF Len(p) = 1 THEN storage[p[1]] ELSE OutsideFiles[p]

\* _handle_file_request, lines 126-128: os.path.exists(filepath) and
\* os.path.isfile(filepath).
file_exists(filename) == path_is_file(filepath(filename))

\* The not-found reply with the code of the catch-all handler (3) in place of 2.
file_not_found_as_exception(filename) == create_error(3, Text("File not found", filename))

\* _handle_file_request, lines 138-139: the reply for a file that is not there.
file_not_found(filename) == create_error(2, Text("File not found", filename))

\* _process_client_request, lines 107-110: the reply to an unknown tag.
unknown_type == create_error(1, Text("Unknown message type", <<>>))

\* _handle_file_request, line 136: ProtocolMessage.create_message(COMPLETE, b''),
\* which raises AttributeError when ProtocolMessage has no such name; the
\* handler at lines 140-143 turns the exception into an Error reply.
complete_reply ==
    IF "create_message" \in ProtocolMessageAttrs
    THEN [type |-> COMPLETE, fmt |-> <<"B">>]
    ELSE create_error(3, Text("AttributeError", <<"create_message">>))

\* _process_client_request: recv(1024) and the dispatch on data[0].  The
\* socket is a blocking one (no settimeout anywhere), so recv returns only
\* when the peer has sent, closed or reset.  A
\* file request for a file that is there goes on to the chunk loop; every
\* other path leaves the value returned in response.
ProcessRequest(c) ==
    /\ UNCHANGED <<stalled, issued>> /\ UNCHANGED aux
    /\ proc # "exited" /\ pc[c] = "recv"
    /\ \/ \* the peer reset the connection without sending: recv raises, and
          \* lines 111-113 return None
          /\ inbox[c] = <<>> /\ c \notin stalled
          /\ sock' = [sock EXCEPT ![c] = "broken"]
          /\ pc' = [pc EXCEPT ![c] = "respond"]
          /\ UNCHANGED <<inbox, data, chunks, response>>
       \/ \* the peer closed without sending: data == b'', return None
          /\ inbox[c] = <<>> /\ c \notin stalled
          /\ pc' = [pc EXCEPT ![c] = "respond"]
          /\ UNCHANGED <<sock, inbox, data, chunks, response>>
       \/ /\ inbox[c] # <<>>
          /\ LET d == Head(inbox[c])
                 serve == d.type = FILE_REQUEST /\ file_exists(d.filename)
             IN  /\ inbox' = [inbox EXCEPT ![c] = Tail(@)]
                 /\ data' = [data EXCEPT ![c] = d]
                 /\ chunks' = [chunks EXCEPT ![c] =
                        IF serve
                        THEN split_file(read_path(filepath(d.filename)), CHUNK_MEDIUM)
                        ELSE @]
                 /\ response' = [response EXCEPT ![c] =
                        CASE d.type = HANDSHAKE -> handle_handshake(d)
                          [] d.type = FILE_REQUEST ->
                                IF serve THEN @ ELSE file_not_found(d.filename)
                          [] d.type = CHUNK_DATA -> handle_chunk_upload(d)
                          [] OTHER -> unknown_type]
                 /\ pc' = [pc EXCEPT ![c] = IF serve THEN "sending" ELSE "respond"]
                 /\ UNCHANGED sock
    /\ UNCHANGED <<proc, running, listening, client_count, active_connections,
                   storage, idx, sendlog>>

\* The chunk list kept on the server object in place of a local: the loop of
\* session c reads the list of the session that set it last.
loop_chunk_shared(c) ==
    LET d == CHOOSE x \in Clients :
                 /\ pc[x] = "sending"
                 /\ \A y \in Clients : pc[y] = "sending" => y <= x
    IN  chunks[d][Min(idx[c] + 1, Len(chunks[d]))]

\* The chunk the loop of _handle_file_request sends at index i of session c.
loop_chunk(c) == chunks[c][idx[c] + 1]

\* _handle_file_request, lines 133-135: one turn of the loop; a sendall that
\* raises leaves the loop for the handler at lines 140-143.
SendChunk(c) ==
    /\ UNCHANGED <<stalled, issued>> /\ UNCHANGED aux
    /\ proc # "exited" /\ pc[c] = "sending"
    /\ idx[c] < Len(chunks[c])
    /\ \E ok \in BOOLEAN :
         /\ Sendall(c, create_chunk(idx[c], loop_chunk(c), TRUE), ok)
         /\ IF ok
            THEN /\ idx' = [idx EXCEPT ![c] = @ + 1]
                 /\ UNCHANGED <<pc, response>>
            ELSE /\ response' = [response EXCEPT ![c] =
                        create_error(3, Text("OSError", <<>>))]
                 /\ pc' = [pc EXCEPT ![c] = "respond"]
                 /\ UNCHANGED idx
    /\ UNCHANGED <<proc, running, listening, client_count, active_connections,
                   storage, inbox, data, chunks>>

\* _handle_file_request, line 136: the loop is over.
FinishChunks(c) ==
    /\ UNCHANGED <<stalled, issued>> /\ UNCHANGED aux
    /\ proc # "exited" /\ pc[c] = "sending"
    /\ idx[c] = Len(chunks[c])
    /\ response' = [response EXCEPT ![c] = complete_reply]
    /\ pc' = [pc EXCEPT ![c] = "respond"]
    /\ UNCHANGED <<proc, running, listening, client_count, active_connections,
                   storage, sock, inbox, data, chunks, idx, sendlog>>

\* The handler of a session's exception shutting the server down.
handle_client_except_stops == running' = FALSE /\ UNCHANGED listening

\* _handle_client, lines 86-87: the handler of an exception in the session
\* prints it; the server's own state is left as it is.
handle_client_except == UNCHANGED <<running, listening>>

\* _handle_client, lines 84-87: if response: client_socket.sendall(response)
Respond(c) ==
    /\ UNCHANGED <<stalled, issued>> /\ UNCHANGED aux
    /\ proc # "exited" /\ pc[c] = "respond"
    /\ \/ /\ response[c] = None
          /\ UNCHANGED <<sock, sendlog, running, listening>>
       \/ /\ response[c] # None
          /\ Sendall(c, response[c], TRUE)
          /\ UNCHANGED <<running, listening>>
       \/ /\ response[c] # None
          /\ Sendall(c, response[c], FALSE)
          /\ handle_client_except
    /\ pc' = [pc EXCEPT ![c] = "finally"]
    /\ UNCHANGED <<proc, client_count, active_connections, storage,
                   inbox, data, chunks, idx, response>>

\* The table left as it is when the handler ends.
del_active_connection_skipped(client_id) == active_connections

\* _handle_client, line 90: del self.active_connections[client_id]
del_active_connection(client_id) == active_connections \ {client_id}

\* _handle_client, lines 88-91, the finally block: client_socket.close() and
\* del self.active_connections[client_id]
Finally(c) ==
    /\ UNCHANGED <<stalled, issued>> /\ UNCHANGED aux
    /\ proc # "exited" /\ pc[c] = "finally"
    /\ sock' = [sock EXCEPT ![c] = "closed"]
    /\ active_connections' = del_active_connection(c)
    /\ pc' = [pc EXCEPT ![c] = "done"]
    /\ UNCHANGED <<proc, running, listening, client_count, storage,
                   inbox, data, chunks, idx, response, sendlog>>

\* main, lines 177-179: KeyboardInterrupt leaves the accept loop (it is no
\* Exception, so neither handler of the loop nor of start() takes it) and
\* stop() runs: running = False, the listening socket is closed.
Stop ==
    /\ UNCHANGED <<stalled, issued>> /\ UNCHANGED aux
    /\ proc = "serving"
    /\ proc' = "stopped"
    /\ running' = FALSE
    /\ listening' = FALSE
    /\ UNCHANGED <<client_count, active_connections, storage, pc, sock, inbox,
                   data, chunks, idx, response, sendlog>>

\* A handler thread that has started and not finished.
InFlight(c) == pc[c] \notin {"none", "done", "killed"}

\* main returns after stop(): the interpreter exits, and every handler thread,
\* being a daemon thread (line 72), stops where it is.
ProcessExit ==
    /\ UNCHANGED <<stalled, issued>> /\ UNCHANGED <<tpc, pure, cl>>
    /\ proc = "stopped"
    /\ proc' = "exited"
    /\ exit_status' = EXIT_MAIN_RETURNED
    /\ pc' = [c \in Clients |-> IF InFlight(c) THEN "killed" ELSE pc[c]]
    /\ UNCHANGED <<running, listening, client_count, active_connections, storage,
                   sock, inbox, data, chunks, idx, response, sendlog>>

Next ==
    \/ Start
    \/ StartFails
    \/ Accept
    \/ Stop
    \/ ProcessExit
    \/ \E c \in Clients :
         \/ Register(c)
         \/ ProcessRequest(c)
         \/ SendChunk(c)
         \/ FinishChunks(c)
         \/ Respond(c)
         \/ Finally(c)

Spec == Init /\ [][Next]_vars

(* ------------------------------ claims -------------------------------- *)

\* The messages written to connection c, in order.
Delivered(c) ==
    LET w == SelectSeq(sendlog[c], LAMBDA e : e.ok)
    IN  [i \in 1..Len(w) |-> w[i].msg]

\* The ChunkData messages the server tried to write to c, written or not.
ChunkSends(c) ==
    LET w == SelectSeq(sendlog[c], LAMBDA e : e.msg.type = CHUNK_DATA)
    IN  [i \in 1..Len(w) |-> w[i].msg]

\* No recv and no sendall on c has raised.
NoIoError(c) ==
    /\ sock[c] # "broken"
    /\ \A i \in 1..Len(sendlog[c]) : sendlog[c][i].ok

\* The server's own Handshake has been written to c.
HandshakeReplied(c) == \E i \in 1..Len(Delivered(c)) : Delivered(c)[i].type = HANDSHAKE

\* An Error message has been written to c.
ErrorDelivered(c) == \E i \in 1..Len(Delivered(c)) : Delivered(c)[i].type = ERROR

\* Message m is a FileRequest whose name, taken inside the storage root, is
\* (is not) one of its files.
NamesStoredFile(m) ==
    m.type = FILE_REQUEST /\ m.filename[Len(m.filename)] \in DOMAIN storage
NamesMissingFile(m) ==
    m.type = FILE_REQUEST /\ m.filename[Len(m.filename)] \notin DOMAIN storage

\* The file of the storage root that FileRequest m names, its size, and what
\* its chunk number i (0-based) holds: bytes i*4096 up to (i+1)*4096 or the end.
StoredName(m) == m.filename[Len(m.filename)]
StoredSize(m) == BytesLen(storage[StoredName(m)])
ExpectedCount(m) == (StoredSize(m) + 4095) \div 4096
ExpectedChunk(m, i) ==
    << <<StoredName(m), i * 4096, Min((i + 1) * 4096, StoredSize(m))>> >>

\* The ChunkData messages the peer of c has sent, read by the server or not.
PeerChunks(c) ==
    (IF data[c].type = CHUNK_DATA THEN <<data[c]>> ELSE <<>>)
        \o SelectSeq(inbox[c], LAMBDA m : m.type = CHUNK_DATA)
PeerPayloads(c) == [i \in 1..Len(PeerChunks(c)) |-> PeerChunks(c)[i].payload.data]

\* The peer of c uploaded UploadData whole and unharmed / with a chunk corrupted.
IntactUpload(c) ==
    /\ PeerChunks(c) # <<>>
    /\ \A i \in 1..Len(PeerChunks(c)) : PeerChunks(c)[i].payload.enc = "zlib"
    /\ reassemble_file(PeerPayloads(c)) = UploadData
CorruptUpload(c) ==
    \E i \in 1..Len(PeerChunks(c)) : PeerChunks(c)[i].payload.enc = "garbage"

\* C1: a FileRequest for a stored file is answered with one ChunkData per
\* chunk of the file, indices 0..n-1 in ascending order, then one Complete,
\* and with no Error (stated of a finished session whose socket never failed).
C1_DownloadThenComplete ==
    \A c \in Clients :
        (pc[c] = "done" /\ NamesStoredFile(data[c]) /\ NoIoError(c)) =>
            LET d == Delivered(c)
                n == ExpectedCount(data[c])
            IN  /\ Len(d) = n + 1
                /\ \A k \in 1..n : d[k].type = CHUNK_DATA /\ d[k].index = k - 1
                /\ d[n + 1].type = COMPLETE
                /\ ~ErrorDelivered(c)

\* C2: a session serves a download or takes an upload chunk only after the
\* Handshake exchange on its connection.
C2_HandshakeBeforeService ==
    \A c \in Clients :
        (pc[c] = "sending" \/ ChunkSends(c) # <<>> \/ response[c].type = CHUNK_ACK)
            => HandshakeReplied(c)

\* C3: a FileRequest for a stored file that follows the Handshake on the same
\* connection is answered with the file's chunks: no session finishes with
\* that request unanswered.
C3_RequestAfterHandshakeServed ==
    \A c \in Clients :
        (/\ pc[c] = "done" /\ NoIoError(c)
         /\ data[c].type = HANDSHAKE /\ HandshakeReplied(c)
         /\ inbox[c] # <<>> /\ NamesStoredFile(Head(inbox[c])))
            => ChunkSends(c) # <<>>

\* C4: a FileRequest for a file that is not in the storage root gets no
\* ChunkData at all, and the finished session has made exactly one send, an
\* Error with code 2 (file not found), and closed its connection.
C4_MissingFileError ==
    \A c \in Clients :
        NamesMissingFile(data[c]) =>
            /\ pc[c] # "sending"
            /\ ChunkSends(c) = <<>>
            /\ pc[c] = "done" =>
                  /\ sock[c] = "closed"
                  /\ Len(sendlog[c]) = 1
                  /\ sendlog[c][1].msg.type = ERROR
                  /\ sendlog[c][1].msg.code = 2

C4_Witness ==
    \E c \in Clients :
        /\ pc[c] = "done" /\ NamesMissingFile(data[c])
        /\ Len(sendlog[c]) = 1 /\ sendlog[c][1].ok
        /\ sendlog[c][1].msg.type = ERROR /\ sendlog[c][1].msg.code = 2

\* C5: a Handshake with another major version is answered with an Error and
\* never with a Handshake.
C5_IncompatibleVersionRejected ==
    \A c \in Clients :
        (/\ pc[c] \in {"finally", "done"} /\ NoIoError(c)
         /\ data[c].type = HANDSHAKE /\ "version" \in DOMAIN data[c]
         /\ data[c].version[1] # MAJOR)
            => ErrorDelivered(c) /\ ~HandshakeReplied(c)

\* C6: once the session of a peer that uploaded a file whole has finished,
\* the storage root holds a file with the uploaded bytes.
C6_UploadPersisted ==
    \A c \in Clients :
        (pc[c] = "done" /\ NoIoError(c) /\ IntactUpload(c)) =>
            \E f \in DOMAIN storage : storage[f] = UploadData

\* C7: an upload with a corrupted chunk is reported to the peer with an Error
\* by the time the session has finished, and its content is never stored.
C7_CorruptUploadRejected ==
    \A c \in Clients :
        /\ (pc[c] = "done" /\ NoIoError(c) /\ CorruptUpload(c)) => ErrorDelivered(c)
        /\ \A f \in DOMAIN storage :
              \A i \in 1..Len(storage[f]) : storage[f][i][1] # "garbage"

\* A session has failed: an I/O error on its socket, an Error reply, or a
\* request that produced no reply.
SessionFailed(c) ==
    \/ sock[c] = "broken"
    \/ \E i \in 1..Len(sendlog[c]) : ~sendlog[c][i].ok
    \/ response[c].type = ERROR
    \/ pc[c] \in {"respond", "finally", "done"} /\ response[c] = None

\* Everything session d owns, and its entry of the connection table.
SessionView(d) ==
    <<pc[d], sock[d], inbox[d], data[d], chunks[d], idx[d], response[d], sendlog[d],
      d \in active_connections>>

\* C8: a step of a session that fails, or has failed, leaves the accept loop
\* running and changes nothing of any other session: not its messages, not
\* its progress, not its entry of the connection table.
C8_FailureContained ==
    [][\A c \in Clients :
          (/\ pc[c] # "none" /\ pc'[c] # "killed"
           /\ (pc'[c] # pc[c] \/ sendlog'[c] # sendlog[c])
           /\ SessionFailed(c)')
             => /\ running' = running /\ listening' = listening /\ proc' = proc
                /\ client_count' = client_count
                /\ \A d \in Clients \ {c} : SessionView(d)' = SessionView(d)]_vars

\* One session has had a send fail while another is in the middle of a download.
C8_Witness ==
    \E c, d \in Clients :
        /\ c # d
        /\ pc[c] = "done" /\ Len(sendlog[c]) > 0 /\ ~sendlog[c][Len(sendlog[c])].ok
        /\ pc[d] = "sending" /\ idx[d] >= 1 /\ d \in active_connections

\* C9: on every connection the ChunkData messages are the chunks of the file
\* that connection asked for, in order, and all of them once the download is
\* over; a connection that asked for no stored file gets none.
C9_OwnChunksOnly ==
    \A c \in Clients :
        LET s == ChunkSends(c)
        IN  IF NamesStoredFile(data[c])
            THEN /\ \A k \in 1..Len(s) :
                       /\ s[k].index = k - 1
                       /\ s[k].payload.data = ExpectedChunk(data[c], k - 1)
                 /\ Len(s) <= ExpectedCount(data[c])
                 /\ (pc[c] \in {"respond", "finally", "done"} /\ NoIoError(c))
                        => Len(s) = ExpectedCount(data[c])
            ELSE s = <<>>

\* Two sessions are each part-way through the download of a different file.
C9_Witness ==
    \E c, d \in Clients :
        /\ pc[c] = "sending" /\ pc[d] = "sending"
        /\ StoredName(data[c]) # StoredName(data[d])
        /\ Len(Delivered(c)) >= 1 /\ Len(Delivered(d)) >= 1
        /\ idx[c] < Len(chunks[c]) /\ idx[d] < Len(chunks[d])

\* C10: after stop() no connection is accepted, and no session in flight is
\* cut off: it is never stopped short of the end of its handler.
C10_ShutdownLetsSessionsFinish ==
    [][/\ ~running => client_count' = client_count
       /\ \A c \in Clients : InFlight(c) => pc'[c] # "killed"]_vars

\* C11: a session whose peer is silent is never stuck in its recv: a read
\* timeout lets its handler go on (to fail, close and leave the table).
C11_StalledSessionGoesOn ==
    \A c \in Clients :
        (c \in stalled /\ pc[c] = "recv" /\ proc # "exited") => ENABLED ProcessRequest(c)

\* C13: the identifiers the accept loop hands out are pairwise distinct.
C13_UniqueIdentifiers ==
    \A i, j \in 1..Len(issued) : i # j => issued[i] # issued[j]

\* Two connections have been accepted, the second after the first had ended.
C13_Witness ==
    /\ Len(issued) = 2
    /\ pc[issued[1]] = "done" /\ pc[issued[2]] = "recv"
    /\ active_connections = {issued[2]}

\* A message is malformed: its tag is none of the known ones, or it is a
\* Handshake shorter than its fixed header.
Malformed(m) ==
    \/ m.type \notin {HANDSHAKE, FILE_REQUEST, FILE_RESPONSE, CHUNK_DATA, CHUNK_ACK,
                      ERROR, COMPLETE}
    \/ m.type = HANDSHAKE /\ HeaderLen(m) < HeaderLen(create_handshake(get_version))

\* C16: a session whose first message is malformed ends with one reply on its
\* connection, an Error.
C16_MalformedGetsError ==
    \A c \in Clients :
        (pc[c] = "done" /\ NoIoError(c) /\ data[c] # None /\ Malformed(data[c])) =>
            /\ Len(Delivered(c)) = 1
            /\ Delivered(c)[1].type = ERROR

\* C17: once a sendall on a connection has raised, the server tries no other
\* send on it: a failed send is the last entry of the connection's log.
C17_NoSendAfterIoError ==
    \A c \in Clients :
        \A i \in 1..Len(sendlog[c]) : ~sendlog[c][i].ok => i = Len(sendlog[c])

\* C18: every byte the server has read for a session comes from the file of
\* the storage root named by the last component of the requested name.
C18_ReadsInsideRootOnly ==
    \A c \in Clients :
        \A k \in 1..Len(chunks[c]) :
            \A e \in 1..Len(chunks[c][k]) :
                /\ chunks[c][k][e][1] \in DOMAIN storage
                /\ chunks[c][k][e][1] = data[c].filename[Len(data[c].filename)]

\* A request whose name climbs out of the storage root is being served.
C18_Witness ==
    \E c \in Clients :
        /\ pc[c] = "sending" /\ idx[c] >= 1
        /\ Len(data[c].filename) > 1 /\ data[c].filename[1] = ".."
        /\ data[c].filename \in DOMAIN OutsideFiles

(* ------------------ the connection table's statements ----------------- *)

\* The two statements of _handle_client that touch active_connections, each
\* as the interpreter runs it: the table is loaded from self (LOAD_ATTR),
\* then the item is stored or deleted (STORE_SUBSCR / DELETE_SUBSCR).  A
\* thread switch can fall between the two, and nothing in _handle_client or
\* __init__ takes a lock around them.  tpc[t] is where thread t is: "start"
\* (before line 82), "insert" (line 82, table loaded), "session" (lines
\* 83-89), "remove" (line 90, table loaded), "done".
Threads == 1..MaxThreads

\* The server as __init__ and start() leave it, with no connection yet.
ServerAtStart ==
    /\ proc = "serving" /\ running = TRUE /\ listening = TRUE
    /\ Init!4 /\ Init!5 /\ Init!6 /\ Init!7 /\ Init!8
    /\ Init!9 /\ Init!10 /\ Init!11 /\ Init!12 /\ Init!13 /\ Init!14 /\ Init!15
    /\ Init!16 /\ Init!20

TableInit ==
    /\ ServerAtStart
    /\ tpc = [t \in Threads |-> "start"]
    /\ pure = [op |-> "none"]
    /\ cl = [pc |-> "none"]

\* line 82, self.active_connections: the table is on the thread's stack.
LoadForInsert(t) ==
    /\ tpc[t] = "start"
    /\ tpc' = [tpc EXCEPT ![t] = "insert"]
    /\ UNCHANGED <<active_connections, pure, cl>> /\ UNCHANGED server_rest

\* line 82, [client_id] = client_socket
StoreSubscr(t) ==
    /\ tpc[t] = "insert"
    /\ active_connections' = active_connections \cup {t}
    /\ tpc' = [tpc EXCEPT ![t] = "session"]
    /\ UNCHANGED <<pure, cl>> /\ UNCHANGED server_rest

\* lines 83-89 are over (the request, the reply, close()); line 90,
\* self.active_connections: the table is on the thread's stack.
LoadForRemove(t) ==
    /\ tpc[t] = "session"
    /\ tpc' = [tpc EXCEPT ![t] = "remove"]
    /\ UNCHANGED <<active_connections, pure, cl>> /\ UNCHANGED server_rest

\* line 90, del ...[client_id]
DeleteSubscr(t) ==
    /\ tpc[t] = "remove"
    /\ active_connections' = active_connections \ {t}
    /\ tpc' = [tpc EXCEPT ![t] = "done"]
    /\ UNCHANGED <<pure, cl>> /\ UNCHANGED server_rest

TableNext ==
    \E t \in Threads :
        \/ LoadForInsert(t)
        \/ StoreSubscr(t)
        \/ LoadForRemove(t)
        \/ DeleteSubscr(t)

TableSpec == TableInit /\ [][TableNext]_vars

\* Thread t is inside an insert or a remove on the table.
InTableStatement(t) == tpc[t] \in {"insert", "remove"}

PureExtents == {<<b, 0, n>> : b \in {"x", "y"}, n \in 1..MaxLen}
PureData == {<<>>} \cup {<<e>> : e \in PureExtents}
                   \cup {<<e, f>> : e \in PureExtents, f \in PureExtents}

\* File names are sequences of code points: 'a', '.', and 'e' with an acute
\* accent (two bytes in UTF-8).
NameChars == {97, 46, 233}
FileNames == UNION {[1..n -> NameChars] : n \in 0..MaxNameLen}

\* str.encode('utf-8') for code points below 2048.
RECURSIVE utf8_encode(_)
utf8_encode(str) ==
    IF str = <<>> THEN <<>>
    ELSE LET cp == Head(str)
         IN  (IF cp < 128 THEN <<cp>> ELSE <<192 + (cp \div 64), 128 + (cp % 64)>>)
                 \o utf8_encode(Tail(str))

\* bytes.decode('utf-8') on one- and two-byte sequences; <<-1>> stands for
\* the UnicodeDecodeError raised on anything else.
RECURSIVE utf8_decode(_)
utf8_decode(b) ==
    IF b = <<>> THEN <<>>
    ELSE IF b[1] < 128
    THEN LET rest == utf8_decode(Tail(b))
         IN  IF rest = <<-1>> THEN rest ELSE <<b[1]>> \o rest
    ELSE IF b[1] >= 194 /\ b[1] < 224 /\ Len(b) >= 2 /\ b[2] >= 128 /\ b[2] < 192
    THEN LET rest == utf8_decode(Tail(Tail(b)))
         IN  IF rest = <<-1>> THEN rest ELSE <<(b[1] - 192) * 64 + (b[2] - 128)>> \o rest
    ELSE <<-1>>

\* sys.byteorder of the machine: struct's native mode follows it.
ByteOrders == {"little", "big"}

\* struct.pack('I', n) and struct.unpack('I', b)[0]
pack_I(n, order) ==
    LET le == <<n % 256, (n \div 256) % 256, (n \div 65536) % 256, (n \div 16777216) % 256>>
    IN  IF order = "little" THEN le ELSE <<le[4], le[3], le[2], le[1]>>
unpack_I(b, order) ==
    IF order = "little"
    THEN b[1] + 256 * b[2] + 65536 * b[3] + 16777216 * b[4]
    ELSE b[4] + 256 * b[3] + 65536 * b[2] + 16777216 * b[1]

\* struct.pack('BI', b, n): the byte, the pad bytes that align the int, the int.
pack_BI(b, n, order) ==
    <<b>> \o [k \in 1..(calcsize(<<"B", "I">>) - FieldSize("I") - FieldSize("B")) |-> 0]
          \o pack_I(n, order)

\* b[i:j] on a byte string written out byte by byte.
ByteSlice(b, i, j) == SubSeq(b, i + 1, Min(j, Len(b)))

\* FileShareClient._create_file_request
create_file_request(filename, order) ==
    LET filename_bytes == utf8_encode(filename)
    IN  pack_BI(FILE_REQUEST, Len(filename_bytes), order) \o filename_bytes

\* _process_client_request, data = client_socket.recv(1024) of a request that
\* arrives whole.
RECV_SIZE == 1024
recv_request(request) == ByteSlice(request, 0, RECV_SIZE)

\* _handle_file_request, lines 124-125: the file name read from data.
requested_filename(received, order) ==
    LET filename_len == unpack_I(ByteSlice(received, 1, 5), order)
    IN  utf8_decode(ByteSlice(received, 5, 5 + filename_len))

PureInit ==
    /\ ServerAtStart
    /\ tpc = <<>>
    /\ pure = [op |-> "none"]
    /\ cl = [pc |-> "none"]

\* parse_chunk(create_chunk(chunk_index, data, compress))
ApplyChunkCodec ==
    /\ \E chunk_index \in 0..MaxIndex, d \in PureData, compress \in BOOLEAN :
         pure' = [op |-> "parse_chunk", chunk_index |-> chunk_index, data |-> d,
                  compress |-> compress,
                  result |-> parse_chunk(create_chunk(chunk_index, d, compress))]
    /\ UNCHANGED <<active_connections, tpc, cl>> /\ UNCHANGED server_rest

\* The client builds the FileRequest for a name and the server reads the
\* name back from it.
ApplyFileRequestCodec ==
    /\ \E filename \in FileNames, order \in ByteOrders :
         LET request == create_file_request(filename, order)
         IN  pure' = [op |-> "file_request", filename |-> filename, order |-> order,
                      request |-> request,
                      extracted |-> requested_filename(recv_request(request), order)]
    /\ UNCHANGED <<active_connections, tpc, cl>> /\ UNCHANGED server_rest

\* reassemble_file(split_file(file_data)) of a protocol of chunk size chunk_size,
\* and calculate_chunks of a file of that size.
ApplySplit ==
    /\ \E d \in PureData, chunk_size \in 1..MaxChunkSize :
         LET split == split_file(d, chunk_size)
         IN  pure' = [op |-> "split_file", data |-> d, chunk_size |-> chunk_size,
                      chunks |-> split,
                      joined |-> reassemble_file(split),
                      count |-> calculate_chunks(BytesLen(d), chunk_size)]
    /\ UNCHANGED <<active_connections, tpc, cl>> /\ UNCHANGED server_rest

\* chunks without the one of index k (0-based): the chunks that are there,
\* in the order of their indices, as the list reassemble_file is given.
WithoutChunk(parts, k) == SubSeq(parts, 1, k) \o SubSeq(parts, k + 2, Len(parts))

\* reassemble_file as a call: b''.join raises on no list of byte strings, so
\* the call returns.
reassemble_call(parts) == [raised |-> "", file_data |-> reassemble_file(parts)]

\* reassemble_file of the chunks of a split from which one chunk, not the
\* last, is absent.
ApplyReassembleIncomplete ==
    /\ \E d \in PureData, chunk_size \in 1..MaxChunkSize :
         LET split == split_file(d, chunk_size)
         IN  \E k \in 0..(Len(split) - 2) :
                 pure' = [op |-> "reassemble_incomplete", data |-> d,
                          chunk_size |-> chunk_size, absent |-> k,
                          chunks |-> WithoutChunk(split, k),
                          result |-> reassemble_call(WithoutChunk(split, k))]
    /\ UNCHANGED <<active_connections, tpc, cl>> /\ UNCHANGED server_rest

PureNext ==
    \/ ApplyChunkCodec
    \/ ApplyFileRequestCodec
    \/ ApplySplit
    \/ ApplyReassembleIncomplete

PureSpec == PureInit /\ [][PureNext]_vars

\* C14: parse_chunk of a ChunkData built by create_chunk succeeds and gives
\* back the index, the data and the compressed flag it was built from.
C14_ChunkRoundTrip ==
    pure.op = "parse_chunk" =>
        /\ pure.result.raised = ""
        /\ pure.result.chunk_index = pure.chunk_index
        /\ pure.result.payload = pure.data
        /\ pure.result.compressed = pure.compress

\* C15: the file name the server reads from the FileRequest the client
\* builds for a name is that name.
C15_FileRequestRoundTrip ==
    pure.op = "file_request" => pure.extracted = pure.filename

\* C20: joining the chunks of a split gives the data back, and the split has
\* ceil(len / chunk_size) chunks, none when the data is empty.
C20_SplitReassemble ==
    pure.op = "split_file" =>
        /\ pure.joined = pure.data
        /\ Len(pure.chunks) = pure.count
        /\ (pure.data = <<>> => pure.chunks = <<>>)

\* Data of two blobs has been split into several chunks, the last one short
\* and one of them across both blobs.
C20_Witness ==
    /\ pure.op = "split_file"
    /\ Len(pure.data) = 2
    /\ Len(pure.chunks) >= 2
    /\ BytesLen(pure.data) % pure.chunk_size # 0
    /\ \E k \in 1..Len(pure.chunks) : Len(pure.chunks[k]) = 2

(* ------------------------------ client.py ----------------------------- *)

\* The bytes of a message on the wire: its packed header, then what follows
\* it.  The version text of a Handshake is its numbers and the dots between
\* them; a zlib payload is one wire byte for each byte it was made from, of
\* a blob that is not the one it was made from.
ZlibOf(source) ==
    CASE source = "a.txt" -> "zlib(a.txt)"
      [] source = "b.txt" -> "zlib(b.txt)"
      [] OTHER -> "zlib"
PayloadBytes(p) ==
    IF p.enc = "raw" THEN p.data
    ELSE [k \in 1..Len(p.data) |-> <<ZlibOf(p.data[k][1]), p.data[k][2], p.data[k][3]>>]
Wire(m) ==
    IF m.type = HANDSHAKE
    THEN << <<"Handshake", 0, HeaderLen(m) + 2 * Len(m.version) - 1>> >>
    ELSE << <<"ChunkData header", m.index * HeaderLen(m), (m.index + 1) * HeaderLen(m)>> >>
             \o PayloadBytes(m.payload)

\* The server at the other end of the client's connection: server.py, which
\* answers the Handshake and closes, a server that goes on to answer the
\* FileRequest on the same connection with the file's ChunkData messages, or
\* one that closes the connection without an answer (server.py ending while
\* the handler is at work).
Peers == {"server.py", "streaming", "closing"}

\* The files a download names.
ClientNames == {<<"a.txt">>, <<"b.txt">>}

\* What the server sends for a FileRequest, message by message (the loop of
\* _handle_file_request).
FileStream(filename) ==
    LET parts == split_file(read_path(filepath(filename)), CHUNK_MEDIUM)
    IN  [k \in 1..Len(parts) |-> Wire(create_chunk(k - 1, parts[k], TRUE))]

\* socket.recv(bufsize): all that has arrived, up to bufsize bytes.
HANDSHAKE_RECV == 1024
FILE_RECV == 65536
Recv(arrived, bufsize) == Slice(arrived, 0, bufsize)
Unread(arrived, bufsize) == Slice(arrived, bufsize, BytesLen(arrived))

\* FileShareClient.__init__
ClientInit ==
    /\ ServerAtStart
    /\ tpc = <<>>
    /\ pure = [op |-> "none"]
    /\ cl = [pc |-> "new", connected |-> FALSE, peer |-> "none", coming |-> <<>>,
             arrived |-> <<>>, parted |-> FALSE, remote |-> <<>>, chunks |-> <<>>,
             file |-> [written |-> FALSE, bytes |-> <<>>], returned |-> FALSE,
             connect_returned |-> FALSE, sent |-> <<>>, called |-> "none"]

ClientStep(next) ==
    /\ cl' = next
    /\ UNCHANGED <<active_connections, tpc, pure>> /\ UNCHANGED server_rest

\* connect(), up to the recv of _handshake: the connection is refused
\* (connected = False, connect returns False), or it is made, connected =
\* True, the Handshake is sent and the peer's answer is on its way.
ClientConnect ==
    /\ cl.pc \in {"new", "ready"}
    /\ \E peer \in Peers, refused \in BOOLEAN :
         ClientStep(IF refused
                    THEN [cl EXCEPT !.pc = "ready", !.connected = FALSE,
                                    !.connect_returned = FALSE, !.peer = "none",
                                    !.coming = <<>>, !.arrived = <<>>, !.parted = FALSE]
                    ELSE [cl EXCEPT !.pc = "handshake", !.connected = TRUE, !.peer = peer,
                                    !.connect_returned = FALSE,
                                    !.arrived = <<>>, !.parted = FALSE,
                                    !.coming = IF peer = "closing" THEN <<>>
                                               ELSE <<Wire(create_handshake(get_version))>>])

\* The network delivers the next message of the peer, whole or its first
\* ShortRead bytes; the rest of a message delivered in part comes in one
\* piece (parted: the head of coming is such a rest).
Deliver ==
    /\ cl.pc \in {"handshake", "ready", "receive"}
    /\ cl.coming # <<>>
    /\ \E whole \in BOOLEAN :
         LET m == Head(cl.coming)
         IN  /\ ~whole => (~cl.parted /\ BytesLen(m) > ShortRead)
             /\ ClientStep(
                  IF whole
                  THEN [cl EXCEPT !.arrived = Concat(@, m), !.coming = Tail(@),
                                  !.parted = FALSE]
                  ELSE [cl EXCEPT !.arrived = Concat(@, Slice(m, 0, ShortRead)),
                                  !.parted = TRUE,
                                  !.coming = <<Slice(m, ShortRead, BytesLen(m))>> \o Tail(@)])

\* _handshake, response = self.socket.recv(1024): connect returns
\* len(response) > 0.
ClientHandshakeRecv ==
    /\ cl.pc = "handshake"
    /\ cl.arrived # <<>>
    /\ ClientStep([cl EXCEPT !.pc = "ready", !.connect_returned = TRUE,
                             !.arrived = Unread(@, HANDSHAKE_RECV)])

\* _handshake, recv returns b'' (the peer has closed without an answer) or
\* raises: _handshake returns False and so does connect; connected is left
\* as line 38 set it.
ClientHandshakeFails ==
    /\ cl.pc = "handshake"
    /\ cl.arrived = <<>> /\ cl.coming = <<>>
    /\ ClientStep([cl EXCEPT !.pc = "ready", !.connect_returned = FALSE])

\* disconnect(): the socket is closed, connected = False.
ClientDisconnect ==
    /\ cl.pc = "ready"
    /\ cl.connected
    /\ ClientStep([cl EXCEPT !.connected = FALSE, !.coming = <<>>, !.arrived = <<>>,
                             !.parted = FALSE])

\* download_file up to the loop of _receive_file: not connected, it returns
\* False; the request is sent, or sendall raises and it returns False.  A
\* streaming peer answers the request.
ClientDownload ==
    /\ cl.pc = "ready"
    /\ \E remote \in ClientNames, sent \in BOOLEAN :
         ClientStep(
           IF ~cl.connected \/ ~sent
           THEN [cl EXCEPT !.pc = "returned", !.remote = remote, !.returned = FALSE,
                           !.called = "download_file"]
           ELSE [cl EXCEPT !.pc = "receive", !.remote = remote, !.chunks = <<>>,
                           !.called = "download_file",
                           !.sent = Append(@, FileRequest(remote)),
                           !.coming = IF cl.peer = "streaming"
                                      THEN @ \o FileStream(remote) ELSE @])

\* upload_file: not connected, or with no local file, it returns False;
\* else _send_file sends the file's ChunkData messages one by one and
\* returns True, or False at the first sendall that raises (the message it
\* was sending is the last of sent).
ClientUpload ==
    /\ cl.pc = "ready"
    /\ \E local_exists \in BOOLEAN, failing \in 0..Len(UploadStream(0)) :
         LET stream == UploadStream(0)
             tried == IF failing = 0 THEN stream ELSE SubSeq(stream, 1, failing)
         IN  /\ (~cl.connected \/ ~local_exists) => failing = 0
             /\ ClientStep(
                  IF ~cl.connected \/ ~local_exists
                  THEN [cl EXCEPT !.pc = "returned", !.returned = FALSE,
                                  !.called = "upload_file"]
                  ELSE [cl EXCEPT !.pc = "returned", !.returned = (failing = 0),
                                  !.called = "upload_file",
                                  !.sent = @ \o tried])

\* _receive_file, one turn of the loop with data: chunks.append(data)
ClientRecvData ==
    /\ cl.pc = "receive"
    /\ cl.arrived # <<>>
    /\ ClientStep([cl EXCEPT !.chunks = Append(@, Recv(cl.arrived, FILE_RECV)),
                             !.arrived = Unread(@, FILE_RECV)])

\* _receive_file, recv returns b'' (the peer has sent everything and
\* closed): the loop ends; with chunks, b''.join(chunks) is written to the
\* file and download_file returns True, without, it returns False.
ClientRecvEnd ==
    /\ cl.pc = "receive"
    /\ cl.arrived = <<>> /\ cl.coming = <<>>
    /\ ClientStep(
         IF cl.chunks # <<>>
         THEN [cl EXCEPT !.pc = "returned", !.returned = TRUE,
                         !.file = [written |-> TRUE, bytes |-> reassemble_file(cl.chunks)]]
         ELSE [cl EXCEPT !.pc = "returned", !.returned = FALSE])

\* _receive_file, recv raises ConnectionResetError (the server has closed
\* without reading the request): download_file returns False.
ClientRecvReset ==
    /\ cl.pc = "receive"
    /\ cl.peer \in {"server.py", "closing"}
    /\ ClientStep([cl EXCEPT !.pc = "returned", !.returned = FALSE])

ClientNext ==
    \/ ClientConnect
    \/ Deliver
    \/ ClientHandshakeRecv
    \/ ClientHandshakeFails
    \/ ClientDisconnect
    \/ ClientDownload
    \/ ClientUpload
    \/ ClientRecvData
    \/ ClientRecvEnd
    \/ ClientRecvReset

ClientSpec == ClientInit /\ [][ClientNext]_vars

\* C19: when download_file has returned True, the local file holds the
\* bytes of the requested file of the server.
C19_DownloadWritesFileBytes ==
    (cl.pc = "returned" /\ cl.called = "download_file" /\ cl.returned) =>
        /\ cl.file.written
        /\ cl.file.bytes = read_path(filepath(cl.remote))

\* C21: reassembly of a chunk set from which an index below the highest one
\* is absent fails with MissingChunk; it returns no file.
C21_IncompleteSetRejected ==
    pure.op = "reassemble_incomplete" => pure.result.raised = "MissingChunk"

\* C22: a process whose start() could not bind has accepted no connection,
\* listens on nothing and has ended with a status that is not zero.
C22_BindFailureExitsNonZero ==
    proc = "aborted" =>
        /\ client_count = 0 /\ active_connections = {}
        /\ ~running /\ ~listening
        /\ exit_status # EXIT_MAIN_RETURNED

\* C23: a session whose handler has finished has its socket closed and no
\* entry in the connection table; when every handler that started has
\* finished, the table is empty.
C23_FinishedSessionReleased ==
    /\ \A c \in Clients :
           pc[c] = "done" => (sock[c] = "closed" /\ c \notin active_connections)
    /\ (\A c \in Clients : pc[c] \in {"none", "done"}) => active_connections = {}

\* Two handlers have finished, one after a reply that was written and one
\* after a send that raised.
C23_Witness ==
    \E c, d \in Clients :
        /\ pc[c] = "done" /\ pc[d] = "done"
        /\ Len(sendlog[c]) > 0 /\ sendlog[c][Len(sendlog[c])].ok
        /\ Len(sendlog[d]) > 0 /\ ~sendlog[d][Len(sendlog[d])].ok

\* C24: outside connect(), connected is True only if the last connect()
\* returned True, and download_file and upload_file have sent something
\* only if it did.
C24_SendsOnlyAfterHandshake ==
    cl.pc \in {"ready", "receive", "returned"} =>
        /\ cl.connected => cl.connect_returned
        /\ cl.sent # <<>> => cl.connect_returned

====
